---- MODULE Spec2Model ----
(***************************************************************************)
(* Verification model of the F-14 Performance Toolkit numeric core:        *)
(*   - the engine decks  src/src/engines/engine_f110.py (F110EngineModel)  *)
(*     and src/src/engines/interpolator.py (EngineInterpolator),           *)
(*   - the aerodynamic polars src/src/models/f14_aero.py and               *)
(*     src/src/engine/f14_aero.py (two classes named F14Aero),             *)
(*   - the derate search src/src/models/derate.py (DerateCalculator).      *)
(*                                                                         *)
(* Numbers.  The Python code computes in binary floating point.  The model *)
(* computes in exact rationals <<n, d>> (d > 0, lowest terms), so that     *)
(* "equal" means mathematically equal; the explicit round(x, ndigits)      *)
(* calls of the code are modelled as round-half-even on the exact value.   *)
(* Altitudes are in units of 1000 ft and Mach numbers in hundredths, so    *)
(* that every table breakpoint and every query is an integer.              *)
(***************************************************************************)
EXTENDS Integers, Sequences, FiniteSets, TLC

VARIABLES
    data,          \* the DataFrame of the model under test (sequence of rows): engine deck,
                   \* TakeoffModel.data or F110Engine.df
    aero_df,       \* aero table: the DataFrame read by F14Aero.__init__ (sequence of rows)
    config,        \* DerateCalculator.config: [min_rpm, max_rpm, rpm_step]
    grad,          \* takeoff gradient (ft/nm) the takeoff model reports at each RPM
    pc,            \* position inside compute_auto_derate
    rpm,           \* loop variable of compute_auto_derate
    evals,         \* RPMs passed to compute_takeoff so far, in order
    best_results,  \* local best_results of compute_auto_derate (<<>> is None)
    history,       \* completed calls of compute_takeoff, oldest first: [call, ret]
    frame,         \* locals of the running compute_profiles / its inputs
    call,          \* the last call made on the public surface
    ret            \* what that call returned or raised

vars == <<data, aero_df, config, grad, pc, rpm, evals, best_results, history, frame, call, ret>>

----------------------------------------------------------------------------
(* Exact rational arithmetic                                               *)

Abs(x) == IF x < 0 THEN -x ELSE x

RECURSIVE GCD(_, _)
GCD(a, b) == IF b = 0 THEN a ELSE GCD(b, a % b)

\* the rational n/d in lowest terms with positive denominator
Rat(n, d) ==
    LET s == IF d < 0 THEN -1 ELSE 1
        g == GCD(Abs(n), Abs(d))
    IN  <<(s * n) \div g, (s * d) \div g>>

Whole(n) == <<n, 1>>
\* common factors are cancelled before the products are formed
RAdd(x, y) ==
    LET g == GCD(x[2], y[2]) IN
    Rat(x[1] * (y[2] \div g) + y[1] * (x[2] \div g), (x[2] \div g) * y[2])
RSub(x, y) == RAdd(x, <<-y[1], y[2]>>)
RMul(x, y) ==
    LET g1 == GCD(Abs(x[1]), y[2])
        g2 == GCD(Abs(y[1]), x[2])
    IN  IF x[1] = 0 \/ y[1] = 0 THEN <<0, 1>>
        ELSE Rat((x[1] \div g1) * (y[1] \div g2), (x[2] \div g2) * (y[2] \div g1))
RDiv(x, y) == RMul(x, Rat(y[2], y[1]))

Pow10(k) == IF k = 0 THEN 1 ELSE 10

\* Python round(x, ndigits) for ndigits in {0, 1}: nearest multiple of
\* 10^-ndigits, ties to the even multiple.
Round(x, ndigits) ==
    LET s == Pow10(ndigits)
        n == x[1] * s
        q == n \div x[2]
        r == n - q * x[2]
        up == IF 2 * r > x[2] THEN 1
              ELSE IF 2 * r < x[2] THEN 0
              ELSE IF q % 2 = 0 THEN 0 ELSE 1
    IN  Rat(q + up, s)

SetMax(S) == CHOOSE x \in S : \A y \in S : y <= x
SetMin(S) == CHOOSE x \in S : \A y \in S : x <= y

Raise(e) == [status |-> "error", exc |-> e]
IsOk(r) == r.status = "ok"

----------------------------------------------------------------------------
(* numpy.interp(x, xp, fp) as the engine deck and the aero model call it:  *)
(* scalar x, default left/right.  numpy does not check that xp increases;  *)
(* for len(xp) <= 4 (every grid line of the modelled tables) it locates x  *)
(* by the linear scan below.  Indices are 0-based as in numpy.             *)

RECURSIVE LinearScan(_, _, _)
LinearScan(key, arr, i) ==
    IF i < Len(arr) /\ key >= arr[i + 1] THEN LinearScan(key, arr, i + 1) ELSE i

binary_search_with_guess(key, arr) ==
    IF key > arr[Len(arr)] THEN Len(arr)
    ELSE IF key < arr[1] THEN -1
    ELSE LinearScan(key, arr, 1) - 1

NpInterp(x, xp, fp) ==
    LET n == Len(xp) IN
    IF n = 1 THEN Whole(fp[1])
    ELSE LET j == binary_search_with_guess(x, xp) IN
         IF j = -1 THEN Whole(fp[1])
         ELSE IF j = n THEN Whole(fp[n])
         ELSE IF j = n - 1 THEN Whole(fp[j + 1])
         ELSE IF xp[j + 1] = x THEN Whole(fp[j + 1])
         ELSE RAdd(RMul(Rat(fp[j + 2] - fp[j + 1], xp[j + 2] - xp[j + 1]),
                        Whole(x - xp[j + 1])),
                   Whole(fp[j + 1]))

Column(rows, col) == [i \in 1..Len(rows) |-> rows[i][col]]

----------------------------------------------------------------------------
(* Engine deck inputs                                                      *)

\* most rows an engine dataset of the model holds
MaxRows == 5

Row(tt, alt, mach, thrust, rpmv, ff) ==
    [ThrustType |-> tt, Altitude_ft |-> alt, Mach |-> mach,
     Thrust_lbf |-> thrust, RPM_pct |-> rpmv, FuelFlow_pph |-> ff]

\* Sample rows of a performance grid: a complete 2 x 2 MIL grid
\* (0 and 10,000 ft; Mach 0.20 and 0.40) and one AB row.  No IDLE row.
RowPool ==
    { Row("MIL",  0, 20, 16000, 99, 9000),
      Row("MIL", 10, 20, 12000, 97, 7000),
      Row("MIL",  0, 40, 17000, 98, 9900),
      Row("MIL", 10, 40, 13501, 96, 7400),
      Row("AB",   0, 20, 28000, 103, 50000) }

SameKey(r, s) ==
    /\ r.ThrustType = s.ThrustType
    /\ r.Altitude_ft = s.Altitude_ft
    /\ r.Mach = s.Mach

\* every ordering of every choice of at most n pool rows, no key repeated
\* (GridTable invariant: breakpoints are unique within a table)
RECURSIVE TablesUpTo(_, _)
TablesUpTo(pool, n) ==
    IF n = 0 THEN {<<>>}
    ELSE LET prev == TablesUpTo(pool, n - 1) IN
         prev \cup { Append(t, r) : <<t, r>> \in
                       { p \in prev \X pool :
                           \A i \in 1..Len(p[1]) : ~SameKey(p[1][i], p[2]) } }

Datasets == TablesUpTo(RowPool, MaxRows)

QueryAlts == {-5, 0, 5, 10, 15}
QueryMachs == {10, 20, 30, 40, 50}
Categories == {"MIL", "AB", "IDLE"}
Tags == {"MIL", "AB", "IDLE", "DERATE", "mil"}

\* derate argument: <<>> is None, <<p>> is the percent p
None == <<>>
Percents == {90, 100}
ComputeArgs == {<<t, None>> : t \in Tags} \cup {<<"DERATE", <<p>>>> : p \in Percents}

\* Python truthiness of the derate argument (`if derate:`)
Truthy(derate) == derate # None /\ derate[1] # 0

\* str.upper() on the tags of the model
Upper(s) == IF s = "mil" THEN "MIL" ELSE s

----------------------------------------------------------------------------
(* F110EngineModel  (src/src/engines/engine_f110.py)                       *)

\* a filter that substitutes the MIL rows for a category without rows
CategoryRows_Fallback(df, thrust_type) ==
    LET sel == SelectSeq(df, LAMBDA r : r.ThrustType = thrust_type) IN
    IF sel = <<>> THEN SelectSeq(df, LAMBDA r : r.ThrustType = "MIL") ELSE sel

\* df = self.data[self.data["ThrustType"] == thrust_type]
CategoryRows(df, thrust_type) ==
    SelectSeq(df, LAMBDA r : r.ThrustType = thrust_type)

AltsOf(df) == {df[i].Altitude_ft : i \in DOMAIN df}
MachsOf(df) == {df[i].Mach : i \in DOMAIN df}

\* a selection that forgets the altitude condition
AtPoint_MachOnly(df, a, m) == SelectSeq(df, LAMBDA r : r.Mach = m)

\* df[(df["Mach"] == m) & (df["Altitude_ft"] == a)]
AtPoint(df, a, m) == SelectSeq(df, LAMBDA r : r.Mach = m /\ r.Altitude_ft = a)

Values(thrust, rpmv, ff) ==
    [status |-> "ok", Thrust_lbf |-> thrust, RPM_pct |-> rpmv, FuelFlow_pph |-> ff]

\* the nested helper bilinear(val11, val12, val21, val22)
bilinear(val11, val12, val21, val22, alt_low, alt_high, mach_low, mach_high, altitude_ft, mach) ==
    Rat(  val11 * (alt_high - altitude_ft) * (mach_high - mach)
        + val21 * (alt_high - altitude_ft) * (mach - mach_low)
        + val12 * (altitude_ft - alt_low) * (mach_high - mach)
        + val22 * (altitude_ft - alt_low) * (mach - mach_low),
        (alt_high - alt_low) * (mach_high - mach_low))

F110_interpolate(ds, thrust_type, altitude_ft, mach) ==
    LET df == CategoryRows(ds, thrust_type) IN
    IF df = <<>> THEN Raise("ValueError")
    ELSE
    LET machs == MachsOf(df)
        alts == AltsOf(df)
        m_le == {m \in machs : m <= mach}
        m_ge == {m \in machs : m >= mach}
        a_le == {a \in alts : a <= altitude_ft}
        a_ge == {a \in alts : a >= altitude_ft}
    IN
    \* .max() / .min() of an empty selection raises ValueError
    IF m_le = {} \/ m_ge = {} \/ a_le = {} \/ a_ge = {} THEN Raise("ValueError")
    ELSE
    LET mach_low == SetMax(m_le)
        mach_high == SetMin(m_ge)
        alt_low == SetMax(a_le)
        alt_high == SetMin(a_ge)
    IN
    IF mach_low = mach_high /\ alt_low = alt_high THEN
        LET sel == AtPoint(df, alt_low, mach_low) IN
        IF sel = <<>> THEN Raise("IndexError")
        ELSE Values(Whole(sel[1].Thrust_lbf), Whole(sel[1].RPM_pct), Whole(sel[1].FuelFlow_pph))
    ELSE IF mach_low = mach_high THEN
        LET rows == SelectSeq(df, LAMBDA r : r.Mach = mach_low)
            xp == Column(rows, "Altitude_ft")
        IN  Values(NpInterp(altitude_ft, xp, Column(rows, "Thrust_lbf")),
                   NpInterp(altitude_ft, xp, Column(rows, "RPM_pct")),
                   NpInterp(altitude_ft, xp, Column(rows, "FuelFlow_pph")))
    ELSE IF alt_low = alt_high THEN
        LET rows == SelectSeq(df, LAMBDA r : r.Altitude_ft = alt_low)
            xp == Column(rows, "Mach")
        IN  Values(NpInterp(mach, xp, Column(rows, "Thrust_lbf")),
                   NpInterp(mach, xp, Column(rows, "RPM_pct")),
                   NpInterp(mach, xp, Column(rows, "FuelFlow_pph")))
    ELSE
        LET q11 == AtPoint(df, alt_low, mach_low)
            q12 == AtPoint(df, alt_high, mach_low)
            q21 == AtPoint(df, alt_low, mach_high)
            q22 == AtPoint(df, alt_high, mach_high)
            B(col) == bilinear(q11[1][col], q12[1][col], q21[1][col], q22[1][col],
                               alt_low, alt_high, mach_low, mach_high, altitude_ft, mach)
        IN  IF q11 = <<>> \/ q12 = <<>> \/ q21 = <<>> \/ q22 = <<>>
            THEN Raise("IndexError")
            ELSE Values(B("Thrust_lbf"), B("RPM_pct"), B("FuelFlow_pph"))

\* scale relative to MIL rpm = 99 %
MilNominalRpm == 99

\* a scale taken as a plain percentage
Scale_Percent(derate) == Rat(derate[1], 100)

\* derate / 99.0
Scale(derate) == Rat(derate[1], MilNominalRpm)

F110_compute(ds, thrust_type, altitude_ft, mach, derate) ==
    IF thrust_type = "DERATE" THEN
        LET r == F110_interpolate(ds, "MIL", altitude_ft, mach) IN
        IF ~IsOk(r) THEN r
        ELSE IF Truthy(derate) THEN
            Values(Round(RMul(r.Thrust_lbf, Scale(derate)), 0),
                   Round(Whole(derate[1]), 1),
                   Round(RMul(r.FuelFlow_pph, Scale(derate)), 0))
        ELSE Values(Round(r.Thrust_lbf, 0), Round(r.RPM_pct, 1), Round(r.FuelFlow_pph, 0))
    ELSE
        LET r == F110_interpolate(ds, thrust_type, altitude_ft, mach) IN
        IF ~IsOk(r) THEN r
        ELSE Values(Round(r.Thrust_lbf, 0), Round(r.RPM_pct, 1), Round(r.FuelFlow_pph, 0))

----------------------------------------------------------------------------
(* EngineInterpolator  (src/src/engines/interpolator.py)                   *)

\* RPM reported off the exact-match path
RpmMil == 99
RpmAb == 103
RpmIdle == 71

NominalRpm(thrust_type) ==
    IF thrust_type = "MIL" THEN RpmMil
    ELSE IF thrust_type = "AB" THEN RpmAb ELSE RpmIdle

\* one pass of the `for col in [...]` loop, the four corners already fetched
EI_column(Q11, Q12, Q21, Q22, alt_low, alt_high, mach_low, mach_high, altitude, mach) ==
    LET R1 == IF mach_high = mach_low THEN Whole(Q11)
              ELSE RAdd(Whole(Q11), Rat((Q12 - Q11) * (mach - mach_low), mach_high - mach_low))
        R2 == IF mach_high = mach_low THEN Whole(Q21)
              ELSE RAdd(Whole(Q21), Rat((Q22 - Q21) * (mach - mach_low), mach_high - mach_low))
        value == IF alt_high = alt_low THEN R1
                 ELSE RAdd(R1, RDiv(RMul(RSub(R2, R1), Whole(altitude - alt_low)),
                                    Whole(alt_high - alt_low)))
    IN  Round(value, 1)

EI_interpolate(ds, thrust_type, altitude, mach) ==
    LET subset == CategoryRows(ds, thrust_type)
        alts == AltsOf(subset)
        machs == MachsOf(subset)
    IN
    IF altitude \in alts /\ mach \in machs THEN
        LET sel == AtPoint(subset, altitude, mach) IN
        IF sel = <<>> THEN Raise("IndexError")
        ELSE Values(Whole(sel[1].Thrust_lbf), Whole(sel[1].RPM_pct), Whole(sel[1].FuelFlow_pph))
    ELSE
    LET a_le == {a \in alts : a <= altitude}
        a_ge == {a \in alts : a >= altitude}
        m_le == {m \in machs : m <= mach}
        m_ge == {m \in machs : m >= mach}
    IN
    IF a_le = {} \/ a_ge = {} \/ m_le = {} \/ m_ge = {} THEN Raise("ValueError")
    ELSE
    LET alt_low == SetMax(a_le)
        alt_high == SetMin(a_ge)
        mach_low == SetMax(m_le)
        mach_high == SetMin(m_ge)
        c11 == AtPoint(subset, alt_low, mach_low)
        c12 == AtPoint(subset, alt_low, mach_high)
        c21 == AtPoint(subset, alt_high, mach_low)
        c22 == AtPoint(subset, alt_high, mach_high)
        V(col) == EI_column(c11[1][col], c12[1][col], c21[1][col], c22[1][col],
                            alt_low, alt_high, mach_low, mach_high, altitude, mach)
    IN
    IF c11 = <<>> \/ c12 = <<>> \/ c21 = <<>> \/ c22 = <<>> THEN Raise("IndexError")
    ELSE Values(V("Thrust_lbf"), Whole(NominalRpm(thrust_type)), V("FuelFlow_pph"))

EI_compute(ds, thrust_type, altitude_ft, mach, derate) ==
    IF Upper(thrust_type) = "DERATE" THEN
        LET result == EI_interpolate(ds, "MIL", altitude_ft, mach) IN
        IF ~IsOk(result) THEN result
        ELSE IF Truthy(derate) THEN
            Values(RMul(result.Thrust_lbf, Scale(derate)),
                   Whole(derate[1]),
                   RMul(result.FuelFlow_pph, Scale(derate)))
        ELSE result
    ELSE EI_interpolate(ds, Upper(thrust_type), altitude_ft, mach)

----------------------------------------------------------------------------
(* Aero table inputs.  Mach in hundredths, sweep in degrees; CLmax in      *)
(* hundredths, CD0 in ten-thousandths, k in thousandths, stall AoA in      *)
(* degrees, L/D max in tenths.  The two F14Aero classes read the same      *)
(* table under different column names (config/Config, sweep/WingSweep_deg).*)

\* most rows an aero table of the model holds
MaxAeroRows == 4

AeroRow(cfg, sw, m, clmax, cd0, k, aoa, ld) ==
    [config |-> cfg, sweep |-> sw, mach |-> m, clmax |-> clmax, cd0 |-> cd0,
     k |-> k, stall_aoa_deg |-> aoa, l_d_max |-> ld]

AeroPool ==
    { AeroRow("CLEAN", 20, 20, 120, 210, 61, 16, 95),
      AeroRow("CLEAN", 20, 60, 114, 225, 64, 15, 91),
      AeroRow("CLEAN", 68, 20,  90, 260, 88, 13, 70),
      AeroRow("FULL",  20, 20, 215, 650, 72, 19, 52),
      AeroRow("FULL",  68, 20, 160, 700, 93, 17, 41) }

SameAeroKey(r, s) == r.config = s.config /\ r.sweep = s.sweep /\ r.mach = s.mach

RECURSIVE AeroTablesUpTo(_, _)
AeroTablesUpTo(pool, n) ==
    IF n = 0 THEN {<<>>}
    ELSE LET prev == AeroTablesUpTo(pool, n - 1) IN
         prev \cup { Append(t, r) : <<t, r>> \in
                       { p \in prev \X pool :
                           \A i \in 1..Len(p[1]) : ~SameAeroKey(p[1][i], p[2]) } }

AeroTables == AeroTablesUpTo(AeroPool, MaxAeroRows)

QueryConfigs == {"CLEAN", "FULL", "MANEUVER", "clean"}
QuerySweeps == {20, 30, 44, 68}
QueryAeroMachs == {20, 40, 95}

\* str.upper() on the configuration names of the model
UpperConfig(c) == IF c = "clean" THEN "CLEAN" ELSE c

----------------------------------------------------------------------------
(* F14Aero of src/src/models/f14_aero.py                                   *)

\* reference wing area, ft^2
wing_area_ref == 565

ConfigRows(df, cfg) == SelectSeq(df, LAMBDA r : r.config = cfg)

_nearest_config(df, cfg) ==
    LET c == UpperConfig(cfg) IN
    IF \E i \in DOMAIN df : df[i].config = c
    THEN ConfigRows(df, c)
    ELSE ConfigRows(df, "CLEAN")

_auto_sweep(mach) ==
    IF mach < 60 THEN 20
    ELSE IF mach < 90 THEN 35
    ELSE IF mach < 120 THEN 55
    ELSE 68

\* Series.unique(): the distinct values in order of first appearance
RECURSIVE UniqueFrom(_, _, _)
UniqueFrom(xs, i, acc) ==
    IF i > Len(xs) THEN acc
    ELSE IF \E j \in DOMAIN acc : acc[j] = xs[i]
         THEN UniqueFrom(xs, i + 1, acc)
         ELSE UniqueFrom(xs, i + 1, Append(acc, xs[i]))

Unique(xs) == UniqueFrom(xs, 1, <<>>)

\* ndarray.argmin() / Series.idxmin(): first position of the minimum (1-based here)
ArgMin(ds) ==
    CHOOSE i \in DOMAIN ds :
        /\ \A j \in DOMAIN ds : ds[i] <= ds[j]
        /\ \A j \in DOMAIN ds : ds[j] = ds[i] => i <= j

AeroOk(clmax, cd0, k, aoa, ld, nearest_sweep) ==
    [status |-> "ok", clmax |-> clmax, cd0 |-> cd0, k |-> k,
     stall_aoa_deg |-> aoa, l_d_max |-> ld,
     \* wing_area_ref * cos(radians(nearest_sweep)), kept symbolic
     wing_area_eff |-> [ref |-> wing_area_ref, cos_deg |-> nearest_sweep]]

Models_polar(df, cfg, sweep_arg, mach, auto) ==
    LET sweep == IF auto THEN _auto_sweep(mach) ELSE sweep_arg
        sub_df == _nearest_config(df, cfg)
        sweeps == Unique(Column(sub_df, "sweep"))
    IN
    \* argmin of an empty array raises ValueError
    IF sweeps = <<>> THEN Raise("ValueError")
    ELSE
    LET nearest_sweep == sweeps[ArgMin([i \in DOMAIN sweeps |-> Abs(sweeps[i] - sweep)])]
        sel == SelectSeq(sub_df, LAMBDA r : r.sweep = nearest_sweep)
        mach_values == Column(sel, "mach")
        I(col) == NpInterp(mach, mach_values, Column(sel, col))
    IN  AeroOk(I("clmax"), I("cd0"), I("k"), I("stall_aoa_deg"), I("l_d_max"), nearest_sweep)

----------------------------------------------------------------------------
(* F14Aero of src/src/engine/f14_aero.py                                   *)

\* index labels (0-based positions in the whole table) of the rows of cfg
RECURSIVE LabelsFrom(_, _, _, _)
LabelsFrom(df, cfg, i, acc) ==
    IF i > Len(df) THEN acc
    ELSE LabelsFrom(df, cfg, i + 1,
                    IF df[i].config = cfg THEN Append(acc, i - 1) ELSE acc)

Labels(df, cfg) == LabelsFrom(df, cfg, 1, <<>>)

Triple(row) == [status |-> "ok", CLmax |-> row.clmax, CD0 |-> row.cd0, k |-> row.k]

Engine_polar(df, cfg, sweep_deg) ==
    LET d == ConfigRows(df, cfg) IN
    IF d = <<>> THEN Raise("ValueError")
    ELSE IF Cardinality({d[i].sweep : i \in DOMAIN d}) > 1 THEN
        LET diffs == [i \in DOMAIN d |-> Abs(d[i].sweep - sweep_deg)]
            \* idxmin() is an index label; iloc[] takes a position
            label == Labels(df, cfg)[ArgMin(diffs)]
        IN  IF label >= Len(d) THEN Raise("IndexError")
            ELSE Triple(d[label + 1])
    ELSE Triple(d[1])

----------------------------------------------------------------------------
(* State machine of the engine decks: the dataset is fixed at construction *)
(* and every call is a pure function of it and of its arguments, so a      *)
(* behaviour is one construction followed by one call.                     *)

NoCall == [op |-> "none"]
NoRet == [status |-> "none"]

IdleAero == <<>>
IdleConfig == [min_rpm |-> 0, max_rpm |-> 0, rpm_step |-> 1, allow_ab |-> TRUE]
IdleGrad == <<>>
IdleFrame == [op |-> "none"]

InitEngine ==
    /\ data \in Datasets
    /\ aero_df = IdleAero
    /\ config = IdleConfig
    /\ grad = IdleGrad
    /\ pc = "idle"
    /\ rpm = 0
    /\ evals = <<>>
    /\ best_results = <<>>
    /\ history = <<>>
    /\ frame = IdleFrame
    /\ call = NoCall
    /\ ret = NoRet

Lookup(op, tt, a, m) ==
    [op |-> op, thrust_type |-> tt, altitude_ft |-> a, mach |-> m]
Compute(op, tt, a, m, d) ==
    [op |-> op, thrust_type |-> tt, altitude_ft |-> a, mach |-> m, derate |-> d]

NotEngine == <<data, aero_df, config, grad, pc, rpm, evals, best_results, history, frame>>

F110Interpolate ==
    /\ call = NoCall
    /\ \E tt \in Categories, a \in QueryAlts, m \in QueryMachs :
        /\ call' = Lookup("F110._interpolate", tt, a, m)
        /\ ret' = F110_interpolate(data, tt, a, m)
        /\ UNCHANGED NotEngine

F110Compute ==
    /\ call = NoCall
    /\ \E ta \in ComputeArgs, a \in QueryAlts, m \in QueryMachs :
        /\ call' = Compute("F110.compute", ta[1], a, m, ta[2])
        /\ ret' = F110_compute(data, ta[1], a, m, ta[2])
        /\ UNCHANGED NotEngine

EIInterpolate ==
    /\ call = NoCall
    /\ \E tt \in Categories, a \in QueryAlts, m \in QueryMachs :
        /\ call' = Lookup("EI._interpolate", tt, a, m)
        /\ ret' = EI_interpolate(data, tt, a, m)
        /\ UNCHANGED NotEngine

EICompute ==
    /\ call = NoCall
    /\ \E ta \in ComputeArgs, a \in QueryAlts, m \in QueryMachs :
        /\ call' = Compute("EI.compute", ta[1], a, m, ta[2])
        /\ ret' = EI_compute(data, ta[1], a, m, ta[2])
        /\ UNCHANGED NotEngine

NextEngine == F110Interpolate \/ F110Compute \/ EIInterpolate \/ EICompute

SpecEngine == InitEngine /\ [][NextEngine]_vars

----------------------------------------------------------------------------
(* State machine of the aero models: the table is read at construction,    *)
(* polar is a pure function of it and of its arguments.                    *)

IdleData == <<>>

InitAero ==
    /\ data = IdleData
    /\ aero_df \in AeroTables
    /\ config = IdleConfig
    /\ grad = IdleGrad
    /\ pc = "idle"
    /\ rpm = 0
    /\ evals = <<>>
    /\ best_results = <<>>
    /\ history = <<>>
    /\ frame = IdleFrame
    /\ call = NoCall
    /\ ret = NoRet

ModelsPolar ==
    /\ call = NoCall
    /\ \E c \in QueryConfigs, sw \in QuerySweeps, m \in QueryAeroMachs, au \in BOOLEAN :
        /\ call' = [op |-> "models.polar", config |-> c, sweep |-> sw, mach |-> m, auto |-> au]
        /\ ret' = Models_polar(aero_df, c, sw, m, au)
        /\ UNCHANGED NotEngine

EnginePolar ==
    /\ call = NoCall
    /\ \E c \in QueryConfigs, sw \in QuerySweeps :
        /\ call' = [op |-> "engine.polar", config |-> c, sweep |-> sw]
        /\ ret' = Engine_polar(aero_df, c, sw)
        /\ UNCHANGED NotEngine

NextAero == ModelsPolar \/ EnginePolar

SpecAero == InitAero /\ [][NextAero]_vars

----------------------------------------------------------------------------
(* DerateCalculator  (src/src/models/derate.py)                            *)
(*                                                                         *)
(* compute_takeoff(rpm=...) belongs to a TakeoffModel that takes the RPM   *)
(* as an argument and reports "Climb Gradient (ft/nm)"; the search reads   *)
(* nothing else of its result that decides the outcome.  The model keeps   *)
(* the gradient reported at each RPM in `grad`, chosen freely at start.    *)
(* The mission card keeps the fields the search sets; the V-speeds, trim   *)
(* and fuel entries are copied from the takeoff result unchanged.          *)

\* how far below max_rpm the configured floor may lie
RpmSpan == 3
\* largest configured rpm_step
MaxStep == 2

\* max_rpm of the default guardrails of _load_config
DefaultMaxRpm == 99

\* gradient thresholds, ft/nm
GradNormal == 300
GradMinimum == 200
\* RPM written on an afterburner card
AbRpm == 100

RpmDomain == (DefaultMaxRpm - RpmSpan)..DefaultMaxRpm
\* the RPMs a caller may ask for: one below the lowest floor to one above max_rpm
EvalDomain == (DefaultMaxRpm - RpmSpan - 1)..(DefaultMaxRpm + 1)
GradValues == {150, 250, 350}

\* The configuration is whatever json.load finds in the file.  Besides the
\* three keys the code reads, the model carries the policy's afterburner
\* permission as a fourth key, allow_ab; no line of derate.py reads it.
Configs ==
    [min_rpm : RpmDomain, max_rpm : {DefaultMaxRpm}, rpm_step : 1..MaxStep,
     allow_ab : BOOLEAN]

\* results of takeoff_model.compute_takeoff(rpm=r)
compute_takeoff(r) == [Climb_Gradient |-> grad[r]]

_format_mission_card(results, r, derate_type, warnings) ==
    [status |-> "ok",
     Thrust_Type |-> IF derate_type \in {"AUTO", "MANUAL"} THEN "REDUCED" ELSE derate_type,
     Takeoff_RPM |-> r,
     Climb_Gradient |-> results.Climb_Gradient,
     Warnings |-> warnings]

\* a range that runs one RPM past the floor
InRange_BelowFloor(r) == r > config.min_rpm - 2

\* range(max_rpm, min_rpm - 1, -step) still has the value r to hand out
InRange(r) == r > config.min_rpm - 1

InitDerate ==
    /\ data = IdleData
    /\ aero_df = IdleAero
    /\ config \in Configs
    /\ grad \in [EvalDomain -> GradValues]
    /\ pc = "idle"
    /\ rpm = 0
    /\ evals = <<>>
    /\ best_results = <<>>
    /\ history = <<>>
    /\ frame = IdleFrame
    /\ call = NoCall
    /\ ret = NoRet

\* what the derate search only reads or never touches
Tables == <<data, aero_df, config, grad, history, frame>>

\* compute_manual_derate(rpm, takeoff_conditions)
ManualDerate ==
    /\ pc = "idle"
    /\ \E r \in EvalDomain :
        /\ call' = [op |-> "compute_manual_derate", rpm |-> r]
        /\ IF ~(config.min_rpm <= r /\ r <= config.max_rpm)
           THEN /\ ret' = Raise("ValueError")
                /\ evals' = evals
           ELSE /\ ret' = _format_mission_card(compute_takeoff(r), r, "MANUAL", "")
                /\ evals' = Append(evals, r)
    /\ pc' = "done"
    /\ UNCHANGED <<Tables, rpm, best_results>>

\* compute_auto_derate: entry, best_results = None, first value of the range
AutoStart ==
    /\ pc = "idle"
    /\ call' = [op |-> "compute_auto_derate"]
    /\ pc' = "loop"
    /\ rpm' = config.max_rpm
    /\ best_results' = <<>>
    /\ UNCHANGED <<Tables, evals, ret>>

\* one pass of the for loop whose gradient is accepted: break
AutoAccept ==
    /\ pc = "loop"
    /\ InRange(rpm)
    /\ compute_takeoff(rpm).Climb_Gradient >= GradNormal
    /\ evals' = Append(evals, rpm)
    /\ best_results' = <<_format_mission_card(compute_takeoff(rpm), rpm, "AUTO", "")>>
    /\ pc' = "after_loop"
    /\ UNCHANGED <<Tables, rpm, call, ret>>

\* one pass of the for loop whose gradient is rejected: next value of the range
AutoReject ==
    /\ pc = "loop"
    /\ InRange(rpm)
    /\ ~(compute_takeoff(rpm).Climb_Gradient >= GradNormal)
    /\ evals' = Append(evals, rpm)
    /\ rpm' = rpm - config.rpm_step
    /\ UNCHANGED <<Tables, pc, best_results, call, ret>>

\* the range is exhausted
AutoExhausted ==
    /\ pc = "loop"
    /\ ~InRange(rpm)
    /\ pc' = "after_loop"
    /\ UNCHANGED <<Tables, rpm, evals, best_results, call, ret>>

\* `if not best_results:` re-evaluates max_rpm and picks afterburner or MIL
AutoFallback ==
    /\ pc = "after_loop"
    /\ best_results = <<>>
    /\ LET results == compute_takeoff(config.max_rpm) IN
       /\ evals' = Append(evals, config.max_rpm)
       /\ best_results' =
            IF results.Climb_Gradient < GradMinimum
            THEN <<_format_mission_card(results, AbRpm, "AFTERBURNER", "RED")>>
            ELSE <<_format_mission_card(results, config.max_rpm, "MIL", "AMBER")>>
    /\ pc' = "return"
    /\ UNCHANGED <<Tables, rpm, call, ret>>

\* `if not best_results:` skipped
AutoKeep ==
    /\ pc = "after_loop"
    /\ best_results # <<>>
    /\ pc' = "return"
    /\ UNCHANGED <<Tables, rpm, evals, best_results, call, ret>>

\* return best_results
AutoReturn ==
    /\ pc = "return"
    /\ ret' = best_results[1]
    /\ pc' = "done"
    /\ UNCHANGED <<Tables, rpm, evals, best_results, call>>

NextDerate ==
    \/ ManualDerate
    \/ AutoStart
    \/ AutoAccept
    \/ AutoReject
    \/ AutoExhausted
    \/ AutoFallback
    \/ AutoKeep
    \/ AutoReturn

SpecDerate == InitDerate /\ [][NextDerate]_vars

----------------------------------------------------------------------------
(* TakeoffModel  (src/src/models/takeoff_model.py)                         *)
(*                                                                         *)
(* self.data is the NATOPS table, one row per weight.  Weights are in lb   *)
(* and gradients in ft/nm.  The RPM, fuel flow, V-speeds and trim text of  *)
(* the result are read from the engine object and from other columns and   *)
(* decide nothing; the model keeps the fields the thrust and gradient      *)
(* logic sets.                                                             *)

\* most rows of a takeoff table read from the CSV file
MaxTakeoffRows == 3
\* calls of compute_takeoff one behaviour makes on the same table
MaxCalls == 2

TakeoffRow(w, g) == [Weight_lbs |-> w, ClimbGradient_ftnm |-> g]

\* the fallback dataset of _load_takeoff_data
FallbackData ==
    << TakeoffRow(55000, 320), TakeoffRow(60000, 310), TakeoffRow(65000, 300),
       TakeoffRow(70000, 280), TakeoffRow(72000, 260) >>

\* rows a NATOPS file may hold: those of the fallback dataset and a light
\* weight whose gradient leaves a margin with one engine out
TakeoffPool == {FallbackData[i] : i \in 1..Len(FallbackData)} \cup {TakeoffRow(50000, 400)}

\* every ordering of every choice of at most n pool rows, no weight repeated
RECURSIVE TakeoffTablesUpTo(_, _)
TakeoffTablesUpTo(pool, n) ==
    IF n = 0 THEN {<<>>}
    ELSE LET prev == TakeoffTablesUpTo(pool, n - 1) IN
         prev \cup { Append(t, r) : <<t, r>> \in
                       { p \in prev \X pool :
                           \A i \in 1..Len(p[1]) : p[1][i].Weight_lbs # p[2].Weight_lbs } }

\* an empty file gives the fallback dataset
TakeoffTables ==
    {FallbackData} \cup (TakeoffTablesUpTo(TakeoffPool, MaxTakeoffRows) \ {<<>>})

QueryWeights == {50000, 52000, 55000, 60000, 66000, 69000, 75000}
FlapSettings == {"AUTO", "FULL"}
ThrustModes == {"AUTO", "auto", "MILITARY", "AFTERBURNER", "REDUCED(95%)"}

\* str.upper() on the thrust modes of the model
UpperMode(s) == IF s = "auto" THEN "AUTO" ELSE s

\* x < y on rationals: by the integer parts, then by the fractional parts
RLess(x, y) ==
    LET fx == x[1] \div x[2]
        fy == y[1] \div y[2]
    IN  IF fx # fy THEN fx < fy
        ELSE (x[1] - fx * x[2]) * y[2] < (y[1] - fy * y[2]) * x[2]

\* TakeoffModel._interpolate
TO_interpolate(df, weight, col) ==
    LET ws == {df[i].Weight_lbs : i \in 1..Len(df)} IN
    IF weight <= SetMin(ws) THEN Whole(df[1][col])
    ELSE IF weight >= SetMax(ws) THEN Whole(df[Len(df)][col])
    ELSE NpInterp(weight, Column(df, "Weight_lbs"), Column(df, col))

\* TakeoffModel._determine_thrust: the first element of the returned tuple
_determine_thrust(weight, thrust_mode) ==
    LET mode == IF UpperMode(thrust_mode) = "AUTO"
                THEN IF weight > 68000 THEN "AFTERBURNER" ELSE "MILITARY"
                ELSE thrust_mode
    IN  IF mode = "REDUCED(95%)" THEN "REDUCED (95%)"
        ELSE IF UpperMode(mode) = "AFTERBURNER" THEN "AFTERBURNER"
        ELSE "MILITARY"

\* climb_grad_oei = climb_grad_all_eng * 0.55
climb_grad_oei(climb_grad_all_eng) == RMul(climb_grad_all_eng, Rat(55, 100))

\* a validation that looks at the all-engines gradient alone
_validate_gradients_AllEngOnly(climb_all, climb_oei, thrust_used, thrust_mode, weight) ==
    [status |-> IF RLess(climb_all, Whole(300)) THEN "CAUTION: <300 ft/nm" ELSE "NORMAL",
     thrust_used |-> thrust_used]

\* TakeoffModel._validate_gradients; thrust_mode is the caller's argument
_validate_gradients(climb_all, climb_oei, thrust_used, thrust_mode, weight) ==
    LET low == RLess(climb_all, Whole(300))
        escalate == low /\ UpperMode(thrust_mode) # "AFTERBURNER"
        status1 == IF ~low THEN "NORMAL"
                   ELSE IF escalate THEN "AUTO-ESCALATED TO AB"
                   ELSE IF RLess(climb_all, Whole(200))
                        THEN "WARNING: <200 ft/nm, not acceptable"
                        ELSE "CAUTION: <300 ft/nm"
    IN  [status |-> IF RLess(climb_oei, Whole(200))
                    THEN "OEI WARNING: <200 ft/nm" ELSE status1,
         thrust_used |-> IF escalate
                         THEN _determine_thrust(weight, "AFTERBURNER")
                         ELSE thrust_used]

\* TakeoffModel.compute_takeoff
TakeoffModel_compute_takeoff(df, weight_lbs, flap_setting, thrust_mode) ==
    LET flaps == IF flap_setting = "AUTO"
                 THEN IF weight_lbs > 68000 THEN "FULL"
                      ELSE IF weight_lbs > 62000 THEN "MANEUVER"
                      ELSE "UP"
                 ELSE flap_setting
        thrust_used == _determine_thrust(weight_lbs, thrust_mode)
        climb_grad_all_eng == TO_interpolate(df, weight_lbs, "ClimbGradient_ftnm")
        oei == climb_grad_oei(climb_grad_all_eng)
        checked == _validate_gradients(climb_grad_all_eng, oei, thrust_used,
                                       thrust_mode, weight_lbs)
    IN  [status |-> "ok",
         Weight_lbs |-> weight_lbs,
         Flaps |-> flaps,
         ThrustType |-> checked.thrust_used,
         ClimbGradient_AllEng_ftnm |-> Round(climb_grad_all_eng, 1),
         ClimbGradient_OEI_ftnm |-> Round(oei, 1),
         ClimbStatus |-> checked.status]

InitTakeoff ==
    /\ data \in TakeoffTables
    /\ aero_df = IdleAero
    /\ config = IdleConfig
    /\ grad = IdleGrad
    /\ pc = "idle"
    /\ rpm = 0
    /\ evals = <<>>
    /\ best_results = <<>>
    /\ history = <<>>
    /\ frame = IdleFrame
    /\ call = NoCall
    /\ ret = NoRet

\* compute_takeoff(weight_lbs, flap_setting, thrust_mode); the caller keeps
\* the flap setting and the thrust mode of its first call
ComputeTakeoff ==
    /\ Len(history) < MaxCalls
    /\ \E w \in QueryWeights, f \in FlapSettings, t \in ThrustModes :
        /\ history # <<>> =>
              /\ f = history[1].call.flap_setting
              /\ t = history[1].call.thrust_mode
        /\ LET c == [op |-> "compute_takeoff", weight_lbs |-> w,
                     flap_setting |-> f, thrust_mode |-> t]
               r == TakeoffModel_compute_takeoff(data, w, f, t)
           IN  /\ call' = c
               /\ ret' = r
               /\ history' = Append(history, [call |-> c, ret |-> r])
    /\ UNCHANGED <<data, aero_df, config, grad, pc, rpm, evals, best_results, frame>>

NextTakeoff == ComputeTakeoff

SpecTakeoff == InitTakeoff /\ [][NextTakeoff]_vars

\* a behaviour that asks the table once
ComputeTakeoffOnce == history = <<>> /\ ComputeTakeoff

SpecTakeoffOnce == InitTakeoff /\ [][ComputeTakeoffOnce]_vars

----------------------------------------------------------------------------
(* F110Engine  (src/src/models/engine_model.py)                            *)
(*                                                                         *)
(* self.df has one row per (alt_ft, Temp) with the MIL thrust.  In this    *)
(* section altitudes are in ft, temperatures in deg C, thrust in lbf and   *)
(* Mach numbers in hundredths.                                             *)

\* most rows of the thrust table
MaxEngineRows == 4

EngineRow(alt, temp, thrust) == [alt_ft |-> alt, Temp |-> temp, THRUST_MIL |-> thrust]

\* a complete 2 x 2 grid: sea level and 30,000 ft, 15 and 30 deg C
EnginePool ==
    { EngineRow(0, 15, 16000), EngineRow(0, 30, 15000),
      EngineRow(30000, 15, 7000), EngineRow(30000, 30, 6500) }

\* every ordering of every choice of at most n pool rows, no (alt_ft, Temp) repeated
RECURSIVE EngineTablesUpTo(_, _)
EngineTablesUpTo(pool, n) ==
    IF n = 0 THEN {<<>>}
    ELSE LET prev == EngineTablesUpTo(pool, n - 1) IN
         prev \cup { Append(t, r) : <<t, r>> \in
                       { p \in prev \X pool :
                           \A i \in 1..Len(p[1]) :
                               ~(p[1][i].alt_ft = p[2].alt_ft /\ p[1][i].Temp = p[2].Temp) } }

EngineTables == EngineTablesUpTo(EnginePool, MaxEngineRows)

EngineAlts == {-1000, 0, 15000, 30000, 40000}
EngineTemps == {0, 15, 20, 30}
EngineMachs == {0, 40}
EngineModes == {"MIL", "AB", "REDUCED", "mil", "IDLE"}

\* np.clip
Clip(x, lo, hi) == IF x < lo THEN lo ELSE IF x > hi THEN hi ELSE x

\* a row selection that ignores the temperature
MatchingRows_AltOnly(df, alt_ft, temp_c) ==
    {i \in 1..Len(df) : df[i].alt_ft = alt_ft}

\* data[(data["alt_ft"] == alt_ft) & (data["Temp"] == temp_c)]: positions of the rows
MatchingRows(df, alt_ft, temp_c) ==
    {i \in 1..Len(df) : df[i].alt_ft = alt_ft /\ df[i].Temp = temp_c}

\* base_thr of F110Engine._interpolate_thrust (df not empty)
base_thr(df, alt_ft, temp_c) ==
    LET alt_vals == {df[i].alt_ft : i \in 1..Len(df)}
        temp_vals == {df[i].Temp : i \in 1..Len(df)}
        sub_df == MatchingRows(df, Clip(alt_ft, SetMin(alt_vals), SetMax(alt_vals)),
                                   Clip(temp_c, SetMin(temp_vals), SetMax(temp_vals)))
    IN  IF sub_df = {} THEN df[1].THRUST_MIL
        ELSE df[SetMin(sub_df)].THRUST_MIL

\* F110Engine._interpolate_thrust; min() of an empty column raises ValueError
_interpolate_thrust(df, alt_ft, temp_c, mach, mode) ==
    IF Len(df) = 0 THEN Raise("ValueError")
    ELSE LET base == Whole(base_thr(df, alt_ft, temp_c))
             m == Rat(mach, 100)
         IN  IF Upper(mode) = "MIL"
             THEN [status |-> "ok",
                   thrust |-> RMul(base, RAdd(Whole(1), RAdd(RMul(Rat(25, 100), m),
                                                             RMul(Rat(5, 100), RMul(m, m)))))]
             ELSE IF Upper(mode) = "AB"
             THEN [status |-> "ok",
                   thrust |-> RMul(RMul(base, Rat(195, 100)),
                                   RAdd(Whole(1), RMul(Rat(15, 100), m)))]
             ELSE IF Upper(mode) = "REDUCED"
             THEN [status |-> "ok", thrust |-> RMul(base, Rat(9, 10))]
             ELSE Raise("ValueError")

\* start + (x - from) / span * gain
Ramp(start, x, from, span, gain) ==
    RAdd(Whole(start), RMul(RDiv(RSub(x, Whole(from)), Whole(span)), Whole(gain)))

\* F110Engine._thrust_to_rpm_ff for the modes _interpolate_thrust lets through
_thrust_to_rpm_ff(thrust, mode) ==
    IF Upper(mode) = "MIL"
    THEN IF RLess(thrust, Whole(5000))
         THEN [rpm |-> Ramp(71, thrust, 0, 5000, 10), ff |-> Ramp(3000, thrust, 0, 5000, 2000)]
         ELSE IF RLess(thrust, Whole(12000))
         THEN [rpm |-> Ramp(81, thrust, 5000, 7000, 10), ff |-> Ramp(5000, thrust, 5000, 7000, 4000)]
         ELSE [rpm |-> Ramp(91, thrust, 12000, 4000, 8), ff |-> Ramp(9000, thrust, 12000, 4000, 3000)]
    ELSE IF Upper(mode) = "AB"
    THEN [rpm |-> Rat(995, 10),
          ff |-> RAdd(Whole(20000), RMul(RSub(thrust, Whole(25000)), Rat(3, 10)))]
    ELSE [rpm |-> Ramp(85, thrust, 0, 18000, 10), ff |-> Ramp(6000, thrust, 0, 18000, 4000)]

\* F110Engine.compute
F110Engine_compute(df, alt_ft, temp_c, mach, mode) ==
    LET t == _interpolate_thrust(df, alt_ft, temp_c, mach, mode) IN
    IF ~IsOk(t) THEN t
    ELSE LET rf == _thrust_to_rpm_ff(t.thrust, mode) IN
         [status |-> "ok", Engine |-> "F110", Mode |-> Upper(mode),
          Thrust |-> t.thrust, RPM |-> rf.rpm, FuelFlow |-> rf.ff]

InitEngineModel ==
    /\ data \in EngineTables
    /\ aero_df = IdleAero
    /\ config = IdleConfig
    /\ grad = IdleGrad
    /\ pc = "idle"
    /\ rpm = 0
    /\ evals = <<>>
    /\ best_results = <<>>
    /\ history = <<>>
    /\ frame = IdleFrame
    /\ call = NoCall
    /\ ret = NoRet

\* one call of F110Engine.compute
EngineModelCompute ==
    /\ call = NoCall
    /\ \E a \in EngineAlts, t \in EngineTemps, m \in EngineMachs, mode \in EngineModes :
        /\ call' = [op |-> "F110Engine.compute", alt_ft |-> a, temp_c |-> t,
                    mach |-> m, mode |-> mode]
        /\ ret' = F110Engine_compute(data, a, t, m, mode)
        /\ UNCHANGED NotEngine

NextEngineModel == EngineModelCompute

SpecEngineModel == InitEngineModel /\ [][NextEngineModel]_vars

----------------------------------------------------------------------------
(* CruiseModel  (src/src/models/cruise_model.py)                           *)
(*                                                                         *)
(* compute_profiles runs, for each of four profiles, a loop that burns the *)
(* usable fuel in steps of 0.1 h.  _cruise_point takes thrust and fuel     *)
(* flow from F110Engine.compute at 15 deg C in MIL.  Its drag comes out of *)
(* the atmosphere and of the aero object; the model lets every evaluation  *)
(* return any drag of DragValues.  TAS and the distance flown feed no      *)
(* decision and are left out.  Weight and fuel are in lb, altitudes in ft. *)

\* reserve_fuel of CruiseModel.__init__
ReserveFuel == 2000

Profiles ==
    << [name |-> "BestEndurance", mach |-> 40], [name |-> "BestRange", mach |-> 70],
       [name |-> "OptimumEfficiency", mach |-> 80], [name |-> "ShortestTime", mach |-> 90] >>

CruiseWeights == {40000, 60000}
FuelLoads == {1500, 2000, 3200}
CruiseAlts == {0, 30000}
DragValues == {5000, 20000}

\* a step that burns nothing
StepBurn_Stalled(burn_hr, fuel) == [dt_hr |-> Rat(1, 10), fuel_burn |-> Whole(0)]

\* a step that burns six minutes of fuel flow whatever is left
StepBurn_Uncapped(burn_hr, fuel) == [dt_hr |-> Rat(1, 10), fuel_burn |-> RMul(burn_hr, Rat(1, 10))]

\* dt_hr and fuel_burn of one pass: 6 minutes, or what the remaining fuel allows
StepBurn(burn_hr, fuel) ==
    LET fuel_burn == RMul(burn_hr, Rat(1, 10)) IN
    IF RLess(fuel, fuel_burn)
    THEN [dt_hr |-> RDiv(fuel, burn_hr), fuel_burn |-> fuel]
    ELSE [dt_hr |-> Rat(1, 10), fuel_burn |-> fuel_burn]

\* opt_alt = 25000 + (60000 - weight_lbf) / 20
opt_alt(weight_lbf) == RAdd(Whole(25000), RDiv(RSub(Whole(60000), weight_lbf), Whole(20)))

InitCruise ==
    /\ data \in EngineTables
    /\ aero_df = IdleAero
    /\ config = IdleConfig
    /\ grad = IdleGrad
    /\ pc = "cruise_idle"
    /\ rpm = 0
    /\ evals = <<>>
    /\ best_results = <<>>
    /\ history = <<>>
    /\ frame = IdleFrame
    /\ call = NoCall
    /\ ret = NoRet

NotCruise == <<data, aero_df, config, grad, rpm, evals, best_results, history>>

\* compute_profiles(weight_lbf, fuel_lbs, alt_ft) up to the for loop
CruiseStart ==
    /\ pc = "cruise_idle"
    /\ \E w \in CruiseWeights, f \in FuelLoads, a \in CruiseAlts :
        /\ call' = [op |-> "CruiseModel.compute_profiles", weight_lbf |-> w,
                    fuel_lbs |-> f, alt_ft |-> a]
        /\ IF f - ReserveFuel <= 0
           THEN /\ ret' = [status |-> "ok",
                           results |-> <<[Warning |-> "Insufficient fuel above reserve"]>>]
                /\ pc' = "done"
                /\ frame' = frame
           ELSE /\ frame' = [op |-> "compute_profiles", weight_lbf |-> Whole(w),
                             usable_fuel |-> f - ReserveFuel, alt_ft |-> a, p |-> 1,
                             fuel |-> Whole(0), time_hr |-> Whole(0), steps |-> <<>>,
                             alt |-> a, iters |-> 0, results |-> <<>>]
                /\ pc' = "for"
                /\ ret' = ret
    /\ UNCHANGED NotCruise

\* for pname, pdata in profiles.items(): the locals of the next profile
CruiseNextProfile ==
    /\ pc = "for"
    /\ frame.p <= Len(Profiles)
    /\ frame' = [frame EXCEPT !.fuel = Whole(frame.usable_fuel), !.time_hr = Whole(0),
                              !.steps = <<>>, !.alt = frame.alt_ft, !.iters = 0]
    /\ pc' = "while"
    /\ UNCHANGED <<NotCruise, call, ret>>

\* one pass of `while fuel > 0:`
CruiseIterate ==
    /\ pc = "while"
    /\ RLess(Whole(0), frame.fuel)
    /\ \E drag \in DragValues :
        LET perf == F110Engine_compute(data, frame.alt, 15, Profiles[frame.p].mach, "MIL") IN
        IF ~IsOk(perf)
        THEN /\ ret' = perf
             /\ pc' = "done"
             /\ frame' = [frame EXCEPT !.iters = @ + 1]
        ELSE LET ThrustMargin == RSub(perf.Thrust, Whole(drag))
                 burn_hr == perf.FuelFlow
                 step == StepBurn(burn_hr, frame.fuel)
                 weight_lbf == RSub(frame.weight_lbf, step.fuel_burn)
                 climb == RLess(Whole(frame.alt + 2000), opt_alt(weight_lbf)) /\ frame.alt < 45000
             IN  /\ ret' = ret
                 /\ IF ~RLess(Whole(0), ThrustMargin)
                    THEN /\ frame' = [frame EXCEPT !.iters = @ + 1,
                                         !.steps = Append(@, "Insufficient thrust margin")]
                         /\ pc' = "append"
                    ELSE IF ~RLess(Whole(0), burn_hr)
                    THEN /\ frame' = [frame EXCEPT !.iters = @ + 1]
                         /\ pc' = "append"
                    ELSE /\ frame' = [frame EXCEPT
                                 !.iters = @ + 1,
                                 !.fuel = RSub(@, step.fuel_burn),
                                 !.weight_lbf = weight_lbf,
                                 !.time_hr = RAdd(@, step.dt_hr),
                                 !.alt = IF climb THEN @ + 2000 ELSE @,
                                 !.steps = IF climb THEN Append(@, "StepClimb") ELSE @]
                         /\ pc' = "while"
    /\ UNCHANGED <<NotCruise, call>>

\* `while fuel > 0:` is false
CruiseFuelOut ==
    /\ pc = "while"
    /\ ~RLess(Whole(0), frame.fuel)
    /\ pc' = "append"
    /\ UNCHANGED <<NotCruise, frame, call, ret>>

\* results.append({...}) and the next profile
CruiseAppend ==
    /\ pc = "append"
    /\ frame' = [frame EXCEPT
                   !.results = Append(@, [Profile |-> Profiles[frame.p].name,
                                          StartAlt |-> frame.alt_ft,
                                          EndAlt |-> frame.alt,
                                          Mach |-> Profiles[frame.p].mach,
                                          Endurance_hr |-> frame.time_hr,
                                          ReserveFuel |-> ReserveFuel,
                                          Steps |-> frame.steps]),
                   !.p = @ + 1]
    /\ pc' = "for"
    /\ UNCHANGED <<NotCruise, call, ret>>

\* return results
CruiseReturn ==
    /\ pc = "for"
    /\ frame.p > Len(Profiles)
    /\ ret' = [status |-> "ok", results |-> frame.results]
    /\ pc' = "done"
    /\ UNCHANGED <<NotCruise, frame, call>>

NextCruise ==
    \/ CruiseStart
    \/ CruiseNextProfile
    \/ CruiseIterate
    \/ CruiseFuelOut
    \/ CruiseAppend
    \/ CruiseReturn

SpecCruise == InitCruise /\ [][NextCruise]_vars

----------------------------------------------------------------------------
(* ClimbModel  (src/src/models/climb_model.py)                             *)
(*                                                                         *)
(* _block_climb takes thrust and fuel flow from F110Engine.compute at the  *)
(* start of the block.  Its drag comes out of the atmosphere and of the    *)
(* aero object; the model takes the drag of each altitude block as an      *)
(* input of the call.  The fuel and distance of a block and the totals of  *)
(* a profile feed no decision and are left out.  Weights are in lbf,       *)
(* altitudes in ft, Mach numbers in hundredths.                            *)

ClimbProfiles ==
    << [name |-> "BestROC", mach |-> 60], [name |-> "BestRange", mach |-> 80],
       [name |-> "BestEndurance", mach |-> 40], [name |-> "ShortestTime", mach |-> 90] >>

\* alt_blocks of compute_profiles
alt_blocks(alt_max) == << <<0, 5000>>, <<5000, 10000>>, <<10000, 20000>>, <<20000, alt_max>> >>

ClimbWeights == {40000, 60000}
ClimbTemps == {15}
\* 3000 is the alt_max of LandingModel.calc_landing's go-around check
ClimbAltMax == {3000, 15000, 30000}
\* drag of each of the four altitude blocks, lbf
DragTables == [1..4 -> DragValues]

RECURSIVE RSum(_)
RSum(xs) == IF xs = <<>> THEN Whole(0) ELSE RAdd(xs[1], RSum(Tail(xs)))

\* GS = mach * 661.0 / 1.687
GroundSpeed(mach) == RDiv(RMul(Rat(mach, 100), Whole(661)), Rat(1687, 1000))

\* ROC = (excess * mach * 661.0) / weight_lbf * 60.0
RateOfClimb(excess, mach, weight_lbf) ==
    RMul(RDiv(RMul(excess, RMul(Rat(mach, 100), Whole(661))), Whole(weight_lbf)), Whole(60))

\* gradient = ROC / GS if GS > 0 else 0
Gradient(excess, mach, weight_lbf) ==
    IF RLess(Whole(0), GroundSpeed(mach))
    THEN RDiv(RateOfClimb(excess, mach, weight_lbf), GroundSpeed(mach))
    ELSE Whole(0)

\* ClimbModel._block_climb, perf being the engine's answer and drag the block's drag
_block_climb(perf, drag, weight_lbf, alt_start, alt_end, mach) ==
    LET excess == RSub(perf.Thrust, Whole(drag))
        ROC == RateOfClimb(excess, mach, weight_lbf)
        time_min == IF RLess(Whole(0), ROC) THEN RDiv(Whole(alt_end - alt_start), ROC)
                    ELSE Whole(999)
    IN  [AltStart |-> alt_start, AltEnd |-> alt_end, ROC |-> ROC,
         Gradient |-> Gradient(excess, mach, weight_lbf),
         Time |-> time_min]

\* oei_grad = avg_grad * 0.5
oei_grad(avg_grad) == RMul(avg_grad, Rat(5, 10))

\* one profile of ClimbModel.compute_profiles
ClimbProfile(df, p, drag, weight_lbf, temp_c, alt_max) ==
    LET blocks == alt_blocks(alt_max)
        mach == ClimbProfiles[p].mach
        profile_res == [b \in 1..4 |->
                          _block_climb(F110Engine_compute(df, blocks[b][1], temp_c, mach, "MIL"),
                                       drag[b], weight_lbf, blocks[b][1], blocks[b][2], mach)]
        avg_grad == RDiv(RSum([b \in 1..4 |-> profile_res[b].Gradient]), Whole(4))
    IN  [Profile |-> ClimbProfiles[p].name,
         Segments |-> profile_res,
         AvgGradient |-> avg_grad,
         OEIGradient |-> oei_grad(avg_grad),
         ValidAEO |-> ~RLess(avg_grad, Whole(300)),
         ValidOEI |-> ~RLess(oei_grad(avg_grad), Whole(200))]

\* ClimbModel.compute_profiles; an empty thrust table makes the engine raise
Climb_compute_profiles(df, drag, weight_lbf, temp_c, alt_max) ==
    IF Len(df) = 0 THEN Raise("ValueError")
    ELSE [status |-> "ok",
          results |-> [p \in 1..Len(ClimbProfiles) |->
                          ClimbProfile(df, p, drag, weight_lbf, temp_c, alt_max)]]

\* one call of compute_profiles(weight_lbf, temp_c, alt_max)
ClimbComputeProfiles ==
    /\ call = NoCall
    /\ \E w \in ClimbWeights, t \in ClimbTemps, a \in ClimbAltMax, d \in DragTables :
        /\ call' = [op |-> "ClimbModel.compute_profiles", weight_lbf |-> w,
                    temp_c |-> t, alt_max |-> a, drag |-> d]
        /\ ret' = Climb_compute_profiles(data, d, w, t, a)
        /\ UNCHANGED NotEngine

NextClimb == ClimbComputeProfiles

SpecClimb == InitEngineModel /\ [][NextClimb]_vars

----------------------------------------------------------------------------
(* Standard atmosphere: isa_atm of src/src/models/isa.py, isa_atm of       *)
(* src/core/performance_core.py and ClimbModel._isa_density.               *)
(*                                                                         *)
(* The temperature is an exact rational, in K.  The pressure is            *)
(*     p0 * ratio ^ (g / (R * L)) * exp(-g * dh / (R * T))                 *)
(* with an irrational exponent; the model keeps it as the pair of ratio    *)
(* (the temperature ratio raised to the power) and dh (the height above    *)
(* 11,000 m inside the exponential, in m).  Two pressures of one           *)
(* implementation with the same pair are the same number.  Density and     *)
(* speed of sound are computed from this temperature and pressure.         *)

\* highest altitude asked for, in 1000 ft
MaxIsaKft == 60

IsaImpls == {"isa", "core", "climb"}

\* 11,000 m expressed in ft: 11000 / 0.3048
TropopauseFt == Rat(13750000, 381)

IsaAlts == {Whole(1000 * k) : k \in (-2)..MaxIsaKft}
             \cup {TropopauseFt, Whole(36089), Whole(36090)}

IsaT0 == Rat(28815, 100)
IsaLapse == Rat(65, 10000)

\* alt_ft * 0.3048
AltM(alt_ft) == RMul(alt_ft, Rat(3048, 10000))

\* the branch condition: h <= 11000 in the two isa_atm, alt_m < 11000 in _isa_density
InTroposphere(impl, h) ==
    IF impl = "climb" THEN RLess(h, Whole(11000)) ELSE ~RLess(Whole(11000), h)

\* the first branch: T = T0 - L * h, p = p0 * (T / T0) ** (g / (R * L))
TropoBranch(impl, h) ==
    LET T == RSub(IsaT0, RMul(IsaLapse, h)) IN
    [T |-> T, p |-> [ratio |-> RDiv(T, IsaT0), dh |-> Whole(0)]]

\* an isothermal layer at the tropopause temperature rounded to whole kelvins
IsoBranch_Rounded(impl, h) ==
    [T |-> Whole(217),
     p |-> [ratio |-> RDiv(Whole(217), IsaT0), dh |-> RSub(h, Whole(11000))]]

\* the second branch: T11 is T0 - L * 11000 (the literal 216.65 in performance_core)
IsoBranch(impl, h) ==
    LET T11 == IF impl = "core" THEN Rat(21665, 100)
               ELSE RSub(IsaT0, RMul(IsaLapse, Whole(11000)))
    IN  [T |-> T11, p |-> [ratio |-> RDiv(T11, IsaT0), dh |-> RSub(h, Whole(11000))]]

isa_atm(impl, alt_ft) ==
    LET h == AltM(alt_ft) IN
    IF InTroposphere(impl, h) THEN TropoBranch(impl, h) ELSE IsoBranch(impl, h)

InitIsa ==
    /\ data = IdleData
    /\ aero_df = IdleAero
    /\ config = IdleConfig
    /\ grad = IdleGrad
    /\ pc = "idle"
    /\ rpm = 0
    /\ evals = <<>>
    /\ best_results = <<>>
    /\ history = <<>>
    /\ frame = IdleFrame
    /\ call = NoCall
    /\ ret = NoRet

\* one call of an atmosphere function
IsaAtm ==
    /\ call = NoCall
    /\ \E impl \in IsaImpls, alt_ft \in IsaAlts :
        /\ call' = [op |-> "isa_atm", impl |-> impl, alt_ft |-> alt_ft]
        /\ ret' = isa_atm(impl, alt_ft)
        /\ UNCHANGED NotEngine

NextIsa == IsaAtm

SpecIsa == InitIsa /\ [][NextIsa]_vars

----------------------------------------------------------------------------
(* The two iterative searches of the program side by side: a behaviour is  *)
(* either a derate calculation or a cruise calculation.                    *)

InitSearches == InitDerate \/ InitCruise

NextSearches == NextDerate \/ NextCruise

SpecSearches == InitSearches /\ [][NextSearches]_vars

----------------------------------------------------------------------------
(* Properties of the engine decks                                          *)

InterpolateOps == {"F110._interpolate", "EI._interpolate"}
ComputeOps == {"F110.compute", "EI.compute"}

\* the lookup the call addressed, on query (a, m)
LookupAt(op, tt, a, m) ==
    IF op = "F110._interpolate" THEN F110_interpolate(data, tt, a, m)
    ELSE EI_interpolate(data, tt, a, m)

\* rows of the dataset in category tt, read off the dataset itself
RowsIn(tt) == {i \in DOMAIN data : data[i].ThrustType = tt}
Stored(tt, a, m) ==
    {i \in RowsIn(tt) : data[i].Altitude_ft = a /\ data[i].Mach = m}
StoredAlts(tt) == {data[i].Altitude_ft : i \in RowsIn(tt)}
StoredMachs(tt) == {data[i].Mach : i \in RowsIn(tt)}

\* C1: a lookup whose query (altitude, Mach) is the (altitude, Mach) of a
\* stored row of the queried category returns exactly that row's thrust,
\* RPM and fuel flow, in both engine decks.
C1_ExactBreakpoint ==
    call.op \in InterpolateOps =>
        \A i \in Stored(call.thrust_type, call.altitude_ft, call.mach) :
            ret = Values(Whole(data[i].Thrust_lbf), Whole(data[i].RPM_pct),
                         Whole(data[i].FuelFlow_pph))

\* a lookup at the high-altitude, high-Mach corner of a complete MIL grid
\* stored with other rows around it
C1_Witness ==
    /\ call.op \in InterpolateOps
    /\ Len(data) = MaxRows
    /\ call.thrust_type = "MIL"
    /\ Stored("MIL", call.altitude_ft, call.mach) # {}
    /\ call.altitude_ft = 10 /\ call.mach = 40
    /\ IsOk(ret) /\ ret.Thrust_lbf = Whole(13501)

ClampTo(x, S) ==
    IF x < SetMin(S) THEN SetMin(S) ELSE IF x > SetMax(S) THEN SetMax(S) ELSE x

\* C2: a lookup in a category that has rows, with altitude or Mach outside
\* the sampled range of its axis, succeeds and returns what the same lookup
\* returns with the coordinate replaced by the nearest boundary breakpoint.
C2_ClampInvariant ==
    ( /\ call.op \in InterpolateOps
      /\ RowsIn(call.thrust_type) # {}
      /\ \/ call.altitude_ft # ClampTo(call.altitude_ft, StoredAlts(call.thrust_type))
         \/ call.mach # ClampTo(call.mach, StoredMachs(call.thrust_type)) )
    => /\ IsOk(ret)
       /\ ret = LookupAt(call.op, call.thrust_type,
                         ClampTo(call.altitude_ft, StoredAlts(call.thrust_type)),
                         ClampTo(call.mach, StoredMachs(call.thrust_type)))

\* the category's rows cover every (altitude, Mach) pair of its two axes,
\* each axis having at least two breakpoints
CompleteGrid(tt) ==
    /\ Cardinality(StoredAlts(tt)) >= 2
    /\ Cardinality(StoredMachs(tt)) >= 2
    /\ \A a \in StoredAlts(tt), m \in StoredMachs(tt) : Stored(tt, a, m) # {}

ValueAt(tt, a, m, col) == data[CHOOSE i \in Stored(tt, a, m) : TRUE][col]

\* adjacent breakpoints of S strictly bracketing x
Bracket(x, S) ==
    {p \in S \X S : p[1] < x /\ x < p[2] /\ ~\E s \in S : p[1] < s /\ s < p[2]}

Linear(v0, v1, x0, x1, x) == RAdd(Whole(v0), Rat((v1 - v0) * (x - x0), x1 - x0))

\* C3: on a complete two-axis table, a lookup on a breakpoint of one axis
\* and strictly between two breakpoints of the other returns the 1-D linear
\* interpolation of the two bracketing samples on that grid line, which is
\* also what the four-corner bilinear formula gives on that line; on
\* breakpoints of both axes it returns the stored corner.
C3_BilinearReduces ==
    ( /\ call.op \in InterpolateOps
      /\ CompleteGrid(call.thrust_type) )
    => LET tt == call.thrust_type
           a == call.altitude_ft
           m == call.mach
       IN
       /\ \A b \in Bracket(a, StoredAlts(tt)) :
            m \in StoredMachs(tt) =>
              /\ IsOk(ret)
              /\ \A col \in {"Thrust_lbf", "FuelFlow_pph"} :
                   /\ ret[col] = Linear(ValueAt(tt, b[1], m, col), ValueAt(tt, b[2], m, col),
                                        b[1], b[2], a)
                   /\ \A m2 \in StoredMachs(tt) \ {m} :
                        ret[col] = bilinear(ValueAt(tt, b[1], m, col), ValueAt(tt, b[2], m, col),
                                            ValueAt(tt, b[1], m2, col), ValueAt(tt, b[2], m2, col),
                                            b[1], b[2], m, m2, a, m)
       /\ \A b \in Bracket(m, StoredMachs(tt)) :
            a \in StoredAlts(tt) =>
              /\ IsOk(ret)
              /\ \A col \in {"Thrust_lbf", "FuelFlow_pph"} :
                   ret[col] = Linear(ValueAt(tt, a, b[1], col), ValueAt(tt, a, b[2], col),
                                     b[1], b[2], m)
       /\ (a \in StoredAlts(tt) /\ m \in StoredMachs(tt)) =>
              /\ IsOk(ret)
              /\ \A col \in {"Thrust_lbf", "FuelFlow_pph"} :
                   ret[col] = Whole(ValueAt(tt, a, m, col))

\* C4: when the MIL rows are exactly two rows at altitudes a0 < a1 and one
\* Mach, stored in either order, a MIL lookup at that Mach and an altitude a
\* with a0 <= a <= a1 returns thrust v0 + (v1 - v0)(a - a0)/(a1 - a0).
C4_LinearAlongAltitude ==
    ( /\ call.op \in InterpolateOps
      /\ call.thrust_type = "MIL"
      /\ Cardinality(RowsIn("MIL")) = 2
      /\ Cardinality(StoredAlts("MIL")) = 2
      /\ StoredMachs("MIL") = {call.mach}
      /\ SetMin(StoredAlts("MIL")) <= call.altitude_ft
      /\ call.altitude_ft <= SetMax(StoredAlts("MIL")) )
    => LET a0 == SetMin(StoredAlts("MIL"))
           a1 == SetMax(StoredAlts("MIL"))
       IN  /\ IsOk(ret)
           /\ ret.Thrust_lbf = Linear(ValueAt("MIL", a0, call.mach, "Thrust_lbf"),
                                      ValueAt("MIL", a1, call.mach, "Thrust_lbf"),
                                      a0, a1, call.altitude_ft)

\* C5: compute with setting DERATE and a percent p returns the MIL lookup's
\* thrust and fuel flow at the same (altitude, Mach) multiplied by p/99
\* (F110EngineModel rounds them to whole units on return) and returns p as
\* the RPM, whatever RPM the grid stores.
C5_DerateScaling ==
    ( /\ call.op \in ComputeOps
      /\ call.thrust_type = "DERATE"
      /\ call.derate # None )
    => LET p == call.derate[1]
           f == call.op = "F110.compute"
           mil == IF f THEN F110_interpolate(data, "MIL", call.altitude_ft, call.mach)
                  ELSE EI_interpolate(data, "MIL", call.altitude_ft, call.mach)
           Out(x) == IF f THEN Round(RDiv(RMul(x, Whole(p)), Whole(99)), 0)
                     ELSE RDiv(RMul(x, Whole(p)), Whole(99))
       IN  IF IsOk(mil)
           THEN /\ IsOk(ret)
                /\ ret.Thrust_lbf = Out(mil.Thrust_lbf)
                /\ ret.FuelFlow_pph = Out(mil.FuelFlow_pph)
                /\ ret.RPM_pct = Whole(p)
           ELSE ~IsOk(ret)

\* DERATE at 90 % over a MIL thrust of 16,000 lbf stored with RPM 99
C5_Witness ==
    /\ call.op = "F110.compute"
    /\ call.thrust_type = "DERATE"
    /\ call.derate = <<90>>
    /\ call.altitude_ft = 0 /\ call.mach = 20
    /\ IsOk(ret)
    /\ ret.Thrust_lbf = Whole(14545)
    /\ ret.RPM_pct = Whole(90)

\* C6: compute with setting DERATE and no percent fails; it returns no
\* performance values.
C6_DerateNeedsPercent ==
    ( /\ call.op \in ComputeOps
      /\ call.thrust_type = "DERATE"
      /\ call.derate = None )
    => ret.status = "error"

\* the category a call looks up: DERATE reads the MIL rows, and
\* EngineInterpolator.compute upper-cases the tag first
Requested ==
    IF call.op \in InterpolateOps THEN call.thrust_type
    ELSE LET t == IF call.op = "EI.compute" THEN Upper(call.thrust_type)
                  ELSE call.thrust_type
         IN  IF t = "DERATE" THEN "MIL" ELSE t

\* C7: a call whose category has no rows in the dataset (an unknown tag
\* included) fails; it returns no value taken from another category.
C7_NoRowsFails ==
    (call.op \in InterpolateOps \cup ComputeOps /\ RowsIn(Requested) = {})
        => ret.status = "error"

\* an IDLE request and an unknown tag against a dataset holding MIL and AB rows
C7_Witness ==
    /\ call.op = "F110.compute"
    /\ call.thrust_type \in {"IDLE", "mil"}
    /\ RowsIn("MIL") # {} /\ RowsIn("AB") # {}
    /\ ret.status = "error"

----------------------------------------------------------------------------
(* Properties of the aero models                                           *)

PolarOps == {"models.polar", "engine.polar"}

\* rows of the aero table whose configuration is c, read off the table
AeroRowsOf(c) == {i \in DOMAIN aero_df : aero_df[i].config = c}

\* C8: polar for a configuration that has no rows in the aero table fails;
\* it does not answer with another configuration's coefficients.
C8_UnknownConfigFails ==
    ( /\ call.op \in PolarOps
      /\ AeroRowsOf(call.config) = {}
      /\ AeroRowsOf(UpperConfig(call.config)) = {} )
    => ret.status = "error"

\* the sweep the call asks for (the auto schedule replaces the argument)
RequestedSweep ==
    IF call.op = "models.polar" /\ call.auto THEN _auto_sweep(call.mach) ELSE call.sweep

\* the configuration whose rows the call reads
PolarConfig ==
    IF call.op = "models.polar" THEN UpperConfig(call.config) ELSE call.config

SampledSweeps(c) == {aero_df[i].sweep : i \in AeroRowsOf(c)}

\* nearest sampled sweep, the smaller one of two equally near
NearestSweep(c, sw) ==
    CHOOSE x \in SampledSweeps(c) :
        \A y \in SampledSweeps(c) :
            \/ Abs(x - sw) < Abs(y - sw)
            \/ (Abs(x - sw) = Abs(y - sw) /\ x <= y)

\* C9: for a configuration with rows, polar answers from the rows of the
\* sampled sweep nearest to the requested one, the smaller sweep on a tie,
\* whatever the order of the rows in the table.
C9_NearestSweep ==
    (call.op \in PolarOps /\ AeroRowsOf(PolarConfig) # {})
    => LET ns == NearestSweep(PolarConfig, RequestedSweep) IN
       /\ IsOk(ret)
       /\ call.op = "models.polar" => ret.wing_area_eff.cos_deg = ns
       /\ call.op = "engine.polar" =>
            \E i \in AeroRowsOf(PolarConfig) :
                /\ aero_df[i].sweep = ns
                /\ ret = Triple(aero_df[i])

----------------------------------------------------------------------------
(* Properties of the derate search                                         *)

\* the RPMs range(max_rpm, min_rpm - 1, -rpm_step) runs through
SearchGrid ==
    {r \in config.min_rpm..config.max_rpm : (config.max_rpm - r) % config.rpm_step = 0}

Accepted(r) == grad[r] >= 300

AutoDone == pc = "done" /\ call.op = "compute_auto_derate"

\* C10: when some RPM of the searched range meets the acceptance threshold,
\* compute_auto_derate returns the lowest such RPM: the returned RPM meets
\* the threshold and no RPM of the search grid below it does.
C10_LowestSetting ==
    (AutoDone /\ \E r \in SearchGrid : Accepted(r))
    => /\ ret.Takeoff_RPM \in SearchGrid
       /\ Accepted(ret.Takeoff_RPM)
       /\ \A r \in SearchGrid : r < ret.Takeoff_RPM => ~Accepted(r)

\* the OEI gradient of a setting whose all-engines gradient is g
OeiOf(g) == climb_grad_oei(Whole(g))

\* C11: the automatic search never returns, as a derate or MIL setting
\* without a warning, an RPM whose all-engines gradient is at least 300
\* ft/nm while its one-engine-inoperative gradient is below 200 ft/nm.
C11_OeiGate ==
    (AutoDone /\ ret.Thrust_Type \in {"REDUCED", "MIL"} /\ ret.Warnings = "")
    => ~(/\ grad[ret.Takeoff_RPM] >= GradNormal
         /\ RLess(OeiOf(grad[ret.Takeoff_RPM]), Whole(GradMinimum)))

ManualDone == pc = "done" /\ call.op = "compute_manual_derate"
Band == config.min_rpm..config.max_rpm

\* C12: compute_auto_derate returns an RPM of [min_rpm, max_rpm] or the
\* afterburner setting; compute_manual_derate raises an error for every RPM
\* outside [min_rpm, max_rpm] and has then computed no takeoff; no takeoff
\* is ever computed at an RPM outside the band.
C12_FloorInvariant ==
    /\ AutoDone =>
          \/ ret.Takeoff_RPM \in Band
          \/ (ret.Thrust_Type = "AFTERBURNER" /\ ret.Takeoff_RPM = AbRpm)
    /\ ManualDone =>
          IF call.rpm \in Band
          THEN IsOk(ret) /\ ret.Takeoff_RPM = call.rpm
          ELSE ret = Raise("ValueError") /\ evals = <<>>
    /\ \A i \in 1..Len(evals) : evals[i] \in Band

\* the search stepped by more than one RPM down to the floor and returned it
C12_Witness ==
    /\ AutoDone
    /\ config.rpm_step > 1
    /\ config.min_rpm < config.max_rpm
    /\ ret.Takeoff_RPM = config.min_rpm

\* C13: when the policy forbids afterburner the automatic search never
\* returns the afterburner setting.
C13_AfterburnerPermission ==
    (AutoDone /\ ~config.allow_ab) => ret.Thrust_Type # "AFTERBURNER"

\* C14: when afterburner is permitted and no RPM of the search range has an
\* all-engines gradient of at least 300 ft/nm, the search returns the
\* afterburner setting, after having evaluated every RPM of the range.
C14_Escalation ==
    (AutoDone /\ config.allow_ab /\ \A r \in SearchGrid : ~Accepted(r))
    => /\ ret.Thrust_Type = "AFTERBURNER"
       /\ \A r \in SearchGrid : \E i \in 1..Len(evals) : evals[i] = r

----------------------------------------------------------------------------
(* Properties of the takeoff model                                         *)

\* REDUCED < MIL < AB
Rank(thrust_type) ==
    CASE thrust_type = "AFTERBURNER" -> 2
      [] thrust_type = "MILITARY" -> 1
      [] OTHER -> 0

\* the tabulated gradient does not increase with weight
NonIncreasing ==
    \A i, j \in 1..Len(data) :
        data[i].Weight_lbs <= data[j].Weight_lbs
        => data[i].ClimbGradient_ftnm >= data[j].ClimbGradient_ftnm

\* C15: with thrust_mode AUTO on a table whose gradient does not increase
\* with weight, of two calls the one with the larger weight never gets the
\* lower power setting.
C15_MonotoneInWeight ==
    \A i, j \in 1..Len(history) :
        (/\ NonIncreasing
         /\ UpperMode(history[i].call.thrust_mode) = "AUTO"
         /\ UpperMode(history[j].call.thrust_mode) = "AUTO"
         /\ history[i].call.weight_lbs <= history[j].call.weight_lbs)
        => Rank(history[i].ret.ThrustType) <= Rank(history[j].ret.ThrustType)

----------------------------------------------------------------------------
(* Further properties of the engine decks                                  *)

\* C17: on a complete two-axis table, a lookup strictly between two
\* breakpoints of each axis reports the RPM interpolated from the four
\* surrounding rows of the category, by the bilinear rule used for thrust
\* and fuel flow.
C17_RpmFromGrid ==
    ( /\ call.op \in InterpolateOps
      /\ CompleteGrid(call.thrust_type) )
    => LET tt == call.thrust_type
           a == call.altitude_ft
           m == call.mach
       IN  \A ba \in Bracket(a, StoredAlts(tt)), bm \in Bracket(m, StoredMachs(tt)) :
              /\ IsOk(ret)
              /\ ret.RPM_pct = bilinear(ValueAt(tt, ba[1], bm[1], "RPM_pct"),
                                        ValueAt(tt, ba[2], bm[1], "RPM_pct"),
                                        ValueAt(tt, ba[1], bm[2], "RPM_pct"),
                                        ValueAt(tt, ba[2], bm[2], "RPM_pct"),
                                        ba[1], ba[2], bm[1], bm[2], a, m)

----------------------------------------------------------------------------
(* Properties of the iterative searches                                    *)

\* values range(max_rpm, min_rpm - 1, -rpm_step) holds
LoopEvaluations == (config.max_rpm - config.min_rpm) \div config.rpm_step + 1

\* smallest fuel flow of _thrust_to_rpm_ff in MIL at a thrust above zero, pph
MinMilFuelFlow == 3000

\* C16: compute_auto_derate evaluates the takeoff at most
\* (max_rpm - min_rpm) / rpm_step + 1 times in its loop and once more after
\* it; a pass of the cruise loop that goes on burns at least a tenth of an
\* hour of the smallest MIL fuel flow, so that the passes made for one
\* profile, all but the last, fit into the usable fuel.
C16_BoundedIteration ==
    /\ call.op = "compute_auto_derate" => Len(evals) <= LoopEvaluations + 1
    /\ (pc \in {"while", "append"} /\ frame.iters >= 1)
       => (MinMilFuelFlow \div 10) * (frame.iters - 1) < frame.usable_fuel

\* a profile that left its loop, after two passes or more, because the fuel ran out
C16_Witness ==
    /\ pc = "append"
    /\ frame.iters >= 2
    /\ frame.fuel = Whole(0)
    /\ frame.p = Len(Profiles)

----------------------------------------------------------------------------
(* Properties of the climb model                                           *)

\* thrust of the climb block b of profile p, as the engine reports it
BlockThrust(p, b) ==
    F110Engine_compute(data, alt_blocks(call.alt_max)[b][1], call.temp_c,
                       ClimbProfiles[p].mach, "MIL").Thrust

\* C18: the one-engine-inoperative gradient of a climb profile is the mean,
\* over its altitude blocks, of the gradient given by half the thrust minus
\* the full drag.
C18_OeiGradient ==
    (call.op = "ClimbModel.compute_profiles" /\ IsOk(ret))
    => \A p \in 1..Len(ClimbProfiles) :
          ret.results[p].OEIGradient =
              RDiv(RSum([b \in 1..4 |->
                           Gradient(RSub(RMul(BlockThrust(p, b), Rat(1, 2)), Whole(call.drag[b])),
                                    ClimbProfiles[p].mach, call.weight_lbf)]),
                   Whole(4))

----------------------------------------------------------------------------
(* Properties of the atmosphere                                            *)

\* 216.65 K
TropopauseT == Rat(21665, 100)

----------------------------------------------------------------------------
(* Properties of F110Engine                                                *)

TableAlts == {data[i].alt_ft : i \in 1..Len(data)}
TableTemps == {data[i].Temp : i \in 1..Len(data)}

\* the breakpoints of S next to x on either side (x itself when it is one)
Around(x, S) ==
    {s \in S : \/ (s <= x /\ \A u \in S : u <= x => u <= s)
               \/ (s >= x /\ \A u \in S : u >= x => s <= u)}

\* rows stored at the breakpoints around the query
BracketingRows ==
    {i \in 1..Len(data) : /\ data[i].alt_ft \in Around(call.alt_ft, TableAlts)
                          /\ data[i].Temp \in Around(call.temp_c, TableTemps)}

\* C20: for a query (altitude, temperature) inside the sampled range that is
\* not a stored (alt_ft, Temp) pair, the base thrust (the MIL thrust at Mach
\* 0) lies between the smallest and the largest thrust stored at the
\* breakpoints around the query.
C20_ThrustBracketed ==
    ( /\ call.op = "F110Engine.compute"
      /\ Upper(call.mode) = "MIL"
      /\ call.mach = 0
      /\ data # <<>>
      /\ SetMin(TableAlts) <= call.alt_ft /\ call.alt_ft <= SetMax(TableAlts)
      /\ SetMin(TableTemps) <= call.temp_c /\ call.temp_c <= SetMax(TableTemps)
      /\ ~\E i \in 1..Len(data) : data[i].alt_ft = call.alt_ft /\ data[i].Temp = call.temp_c
      /\ BracketingRows # {} )
    => /\ IsOk(ret)
       /\ ~RLess(ret.Thrust, Whole(SetMin({data[i].THRUST_MIL : i \in BracketingRows})))
       /\ ~RLess(Whole(SetMax({data[i].THRUST_MIL : i \in BracketingRows})), ret.Thrust)

----------------------------------------------------------------------------
(* Properties of CruiseModel                                               *)

\* the loop of a profile is about to make its first pass
ProfileStarts == pc = "while" /\ frame.iters = 0

\* C21: every profile of compute_profiles starts its loop from the weight
\* the caller passed, whatever the profiles before it did.
C21_SameInitialWeight ==
    ProfileStarts => frame.weight_lbf = Whole(call.weight_lbf)

CruiseRunning == call.op = "CruiseModel.compute_profiles" /\ frame.op = "compute_profiles"

\* fuel burned so far by the profile being simulated
ProfileBurned == RSub(Whole(frame.usable_fuel), frame.fuel)

\* what a call leaves when the fuel on board does not exceed the reserve
OnlyWarning ==
    /\ pc = "done"
    /\ frame = IdleFrame
    /\ ret = [status |-> "ok", results |-> <<[Warning |-> "Insufficient fuel above reserve"]>>]

CruiseFuelInvariant ==
    /\ (CruiseRunning /\ pc \in {"while", "append"}) =>
          /\ frame.usable_fuel = call.fuel_lbs - ReserveFuel
          /\ ~RLess(frame.fuel, Whole(0))
          /\ ~RLess(ProfileBurned, Whole(0))
          /\ ~RLess(Whole(call.fuel_lbs - ReserveFuel), ProfileBurned)
    /\ (call.op = "CruiseModel.compute_profiles" /\ call.fuel_lbs - ReserveFuel <= 0) =>
          OnlyWarning

\* a pass of the loop that burns fuel takes it from the profile's fuel and
\* from the weight alike, and takes no more than the profile had left
CruiseStepWithinFuel ==
    (CruiseRunning /\ pc = "while" /\ pc' = "while" /\ frame'.iters = frame.iters + 1) =>
        LET fuel_burn == RSub(frame.fuel, frame'.fuel) IN
        /\ RLess(Whole(0), fuel_burn)
        /\ ~RLess(frame.fuel, fuel_burn)
        /\ RSub(frame.weight_lbf, frame'.weight_lbf) = fuel_burn

\* C22: while a profile is simulated its remaining usable fuel is >= 0 and
\* what it has burned is at most fuel_lbs - reserve_fuel; no pass of the loop
\* burns more than the fuel left before it; with fuel_lbs - reserve_fuel <= 0
\* no profile is simulated and the call returns the warning alone.
C22_ReserveFuel == []CruiseFuelInvariant /\ [][CruiseStepWithinFuel]_vars

\* a profile that burned part of its fuel in a full six-minute pass and the
\* rest in a pass cut short to the fuel that was left
C22_Witness ==
    /\ CruiseRunning
    /\ pc = "while"
    /\ frame.iters >= 2
    /\ frame.fuel = Whole(0)
    /\ ProfileBurned = Whole(call.fuel_lbs - ReserveFuel)
    /\ RLess(frame.time_hr, RMul(Whole(frame.iters), Rat(1, 10)))

\* the fuel on board equals the reserve: nothing is simulated
C22_WitnessReserve ==
    /\ call.op = "CruiseModel.compute_profiles"
    /\ call.fuel_lbs = ReserveFuel
    /\ OnlyWarning

----------------------------------------------------------------------------
(* Properties of ClimbModel's altitude blocks                              *)

\* the segments of profile p of the returned list
SegmentsOf(p) == ret.results[p].Segments

\* C23: the segments of every profile start at 0, end at alt_max, each
\* begins where the one before it ended, none ends below its start, and
\* none takes a negative time.
C23_SegmentsReachAltMax ==
    (call.op = "ClimbModel.compute_profiles" /\ IsOk(ret)) =>
        \A p \in 1..Len(ClimbProfiles) :
            /\ SegmentsOf(p)[1].AltStart = 0
            /\ SegmentsOf(p)[4].AltEnd = call.alt_max
            /\ \A b \in 1..3 : SegmentsOf(p)[b].AltEnd = SegmentsOf(p)[b + 1].AltStart
            /\ \A b \in 1..4 :
                 /\ SegmentsOf(p)[b].AltStart <= SegmentsOf(p)[b].AltEnd
                 /\ ~RLess(SegmentsOf(p)[b].Time, Whole(0))

----------------------------------------------------------------------------
(* Properties of TakeoffModel's climb status                               *)

\* the gradients compute_takeoff hands to _validate_gradients for the call
AllEngGradient == TO_interpolate(data, call.weight_lbs, "ClimbGradient_ftnm")
OeiGradient == RMul(AllEngGradient, Rat(55, 100))

\* the validation changed the thrust setting to AFTERBURNER
Escalated ==
    /\ _determine_thrust(call.weight_lbs, call.thrust_mode) # "AFTERBURNER"
    /\ ret.ThrustType = "AFTERBURNER"

\* C24: compute_takeoff reports the status NORMAL exactly when the
\* all-engines gradient it computed is at least 300 ft/nm and the
\* one-engine-inoperative gradient it computed is at least 200 ft/nm; a
\* result whose thrust the validation raised to AFTERBURNER is not NORMAL.
C24_StatusSound ==
    call.op = "compute_takeoff" =>
        /\ ret.ClimbStatus = "NORMAL" <=>
              (~RLess(AllEngGradient, Whole(300)) /\ ~RLess(OeiGradient, Whole(200)))
        /\ Escalated => ret.ClimbStatus # "NORMAL"

\* a weight between two rows whose interpolated gradients pass both limits
C24_Witness ==
    /\ call.op = "compute_takeoff"
    /\ ret.ClimbStatus = "NORMAL"
    /\ \E i, j \in 1..Len(data) :
          data[i].Weight_lbs < call.weight_lbs /\ call.weight_lbs < data[j].Weight_lbs
    /\ \A i \in 1..Len(data) : Whole(data[i].ClimbGradient_ftnm) # AllEngGradient
    /\ RLess(Whole(300), AllEngGradient)
    /\ RLess(Whole(200), OeiGradient)

\* a MILITARY takeoff the validation raised to AFTERBURNER
C24_WitnessEscalated ==
    /\ call.op = "compute_takeoff"
    /\ call.thrust_mode = "MILITARY"
    /\ Escalated
    /\ ret.ClimbStatus = "OEI WARNING: <200 ft/nm"

====
